---- MODULE Spec2Model ----
(***************************************************************************)
(* A model of the ADS1115 driver of src/ads1115.py: the constructor, the   *)
(* register codec, the conversion protocol (_read_analog_input), the       *)
(* background sampler thread (_read_all_analog_inputs) and the consumer    *)
(* call get_measurement, interleaved at the granularity of one bus         *)
(* operation, one sleep or one Queue operation per step.                   *)
(*                                                                         *)
(* Voltages are exact rationals.  The unit is 1/128000 V, in which every   *)
(* step size of the table of _read_analog_input and v_offset are whole     *)
(* numbers; a call's result is the pair <<total, sampling>>.               *)
(***************************************************************************)
EXTENDS Integers, Sequences, FiniteSets, TLC

\* ------------------------------------------------------------------ bounds

\* The sampler starts a cycle only while fewer snapshots than this were pushed.
MaxPushes == 22
\* The largest sample-average count of the measurement scenarios.
MaxSampling == 3

\* --------------------------------------------------------- program constants

\* A faulty variant of maxsize: the queue is made one entry too large.
maxsize_OneMore == 20 + 1

\* Queue(maxsize=20)
maxsize == 20
\* range(128) of is_detected
ProbeRange == 128
\* _OperationalStatus.START
START == 1
\* _PointerRegister.CONVERSION and _PointerRegister.CONFIG
CONVERSION == 0
CONFIG == 1
\* dead_time = 0.01 s and sampling_period = 0.5 s, in milliseconds
dead_time == 10
sampling_period == 500
\* v_offset = 0.02 V, in units of 1/128000 V
v_offset == 2560
\* The number of bytes of a conversion read
ReadLength == 2

\* The members' values of the enumerations.
I2CAddress == {72, 73, 74, 75}
PGA == 0..7
OperatingMode == 0..1
DataRate == 0..7
ComparatorMode == 0..1
ComparatorPolarity == 0..1
LatchingComparator == 0..1
ComparatorQueue == 0..3

\* The keys of get_config_registers, in the order the sampler reads them.
ChannelKeys ==
    << "in0_in1", "in0_in3", "in1_in3", "in2_in3",
       "in0_gnd", "in1_gnd", "in2_gnd", "in3_gnd" >>

KeySet == { ChannelKeys[k] : k \in 1..Len(ChannelKeys) }

\* _Multiplexer: the multiplexer code of each key.
Multiplexer ==
    [ in0_in1 |-> 0, in0_in3 |-> 1, in1_in3 |-> 2, in2_in3 |-> 3,
      in0_gnd |-> 4, in1_gnd |-> 5, in2_gnd |-> 6, in3_gnd |-> 7 ]

\* step_size of _read_analog_input, in units of 1/128 mV (0.0078125 mV).
step_size == [ g \in 0..7 |-> CASE g = 0 -> 24
                                [] g = 1 -> 16
                                [] g = 2 -> 8
                                [] g = 3 -> 4
                                [] g = 4 -> 2
                                [] OTHER -> 1 ]

Byte == 0..255

\* ------------------------------------------------------- integer operators

\* Python's x << n on a non-negative int.
Shl(x, n) == x * (2 ^ n)

\* Python's a | b on non-negative ints, bit by bit.
RECURSIVE BitOr(_, _)
BitOr(a, b) ==
    IF a = 0 THEN b
    ELSE IF b = 0 THEN a
    ELSE (IF a % 2 = 1 \/ b % 2 = 1 THEN 1 ELSE 0) + 2 * BitOr(a \div 2, b \div 2)

\* ---------------------------------------------------------- register codec

\* _calculate_config_register, with s the fields __init__ assigned.
config_reg_low(s) ==
    BitOr(BitOr(BitOr(BitOr(Shl(s.data_rate, 5),
                            Shl(s.comparator_mode, 4)),
                      Shl(s.comparator_polarity, 3)),
                Shl(s.latching_comparator, 2)),
          s.comparator_queue)

\* A faulty variant of config_reg_high: the gain is shifted as if the mode had two bits.
config_reg_high_WrongShift(s, mux_config) ==
    BitOr(BitOr(BitOr(Shl(START, 7), Shl(mux_config, 4)), Shl(s.pga, 2)),
          s.operating_mode)

config_reg_high(s, mux_config) ==
    BitOr(BitOr(BitOr(Shl(START, 7), Shl(mux_config, 4)), Shl(s.pga, 1)),
          s.operating_mode)

calculate_config_register(s, mux_config) ==
    << config_reg_high(s, mux_config), config_reg_low(s) >>

get_config_registers(s) ==
    [ k \in KeySet |-> calculate_config_register(s, Multiplexer[k]) ]

\* A faulty variant of raw_adc: the comparison is off by one.
raw_adc_OffByOne(data) ==
    LET u == BitOr(Shl(data[1], 8), data[2])
    IN  IF u > 32768 THEN u - 65536 ELSE u

\* raw_adc = data[0] << 8 | data[1]; if raw_adc > 32767: raw_adc -= 65536
raw_adc(data) ==
    LET u == BitOr(Shl(data[1], 8), data[2])
    IN  IF u > 32767 THEN u - 65536 ELSE u

\* A faulty variant of sample_voltage: the offset is added.
sample_voltage_OffsetAdded(raw, pga) == raw * step_size[pga] + v_offset

\* (raw_adc * step_size[self.pga] / 1000) - self.v_offset, in 1/128000 V
sample_voltage(raw, pga) == raw * step_size[pga] - v_offset

\* round(x, 5) of the result <<total, sampling>>, in units of 0.00001 V:
\* total / (128000 * sampling) V = total * 25 / (32 * sampling) units,
\* rounded to the nearest whole unit, a tie to the even one.
round5(result) ==
    LET n == result[1] * 25
        d == 32 * result[2]
        sgn == IF (n < 0) = (d < 0) THEN 1 ELSE -1
        an == IF n < 0 THEN -n ELSE n
        ad == IF d < 0 THEN -d ELSE d
        q == an \div ad
        r == an % ad
        up == 2 * r > ad \/ (2 * r = ad /\ q % 2 = 1)
    IN  sgn * (IF up THEN q + 1 ELSE q)

\* ------------------------------------------------------------------ state

VARIABLES
    args,             \* the arguments __init__ was called with
    env,              \* the surroundings: the codes the device converts to,
                      \* the channels the application reads directly and
                      \* its threads that call get_measurement
    init_pc,          \* the position of __init__
    init_error,       \* the exception that ended __init__, "none" if none
    probe_dev,        \* the loop variable of is_detected
    detected,         \* is_detected returned True
    self,             \* the fields __init__ assigned (lines 142-150)
    config_registers, \* self.config_registers
    data,             \* self.__data, oldest first
    smp,              \* the sampler thread
    call,             \* the _read_analog_input call of each thread
    consumer,         \* the position of each get_measurement caller
    pushed,           \* how many snapshots were put so far
    popped,           \* some get_measurement call has removed a snapshot
    delivered         \* what the last get_measurement call that took a
                      \* snapshot returned, as a sequence of that one
                      \* snapshot; empty before the first

vars ==
    << args, env, init_pc, init_error, probe_dev, detected, self,
       config_registers, data, smp, call, consumer, pushed, popped, delivered >>

\* The threads that measure, and those that call get_measurement.
Threads == { "sampler", "caller" }
Consumers == { "c1", "c2" }

\* No field assigned yet.
NoFields ==
    [ pga |-> -1, address |-> -1, sampling |-> -1, operating_mode |-> -1,
      data_rate |-> -1, comparator_mode |-> -1, comparator_polarity |-> -1,
      latching_comparator |-> -1, comparator_queue |-> -1 ]

NoRegisters == [ k \in KeySet |-> << >> ]

\* No call of _read_analog_input in progress.
NoCall ==
    [ step |-> "idle", key |-> "none", config_register |-> << >>, i |-> 0,
      total |-> 0, data |-> << >>, raw_adc |-> 0, ops |-> << >>,
      result |-> << >>, error |-> "none" ]

\* The sampler before _run.  Of one cycle it records: evicted, line 273 has
\* removed the oldest snapshot; failed, a read_input call raised; put, line 275
\* has inserted the snapshot; start, the number of snapshots put before the
\* cycle; prev_failed, that the cycle before it failed; keys, the channels
\* whose read_input call has returned, in the order of the calls; stamp, the
\* time line 286 read; writes, the configuration writes of its calls; and
\* slept, how long the sampler slept before the cycle.
NoSampler ==
    [ pc |-> "off", chan |-> 0, readings |-> << >>, evicted |-> FALSE,
      failed |-> FALSE, put |-> FALSE, prev_failed |-> FALSE, start |-> 0,
      keys |-> << >>, stamp |-> 0, writes |-> 0, slept |-> 0 ]

\* The arguments of a call of the constructor: whether bus, pga and address
\* have the type __init__ checks, whether the optional settings are Enum
\* members (have a .value), and the values.
Arguments(types, pgas, addresses, samplings, modes, rates, cmodes, cpols, latches, queues) ==
    [ bus_is_int : types, pga_is_PGA : types, address_is_I2CAddress : types,
      options_are_enums : types,
      pga : pgas, address : addresses, sampling : samplings,
      operating_mode : modes, data_rate : rates, comparator_mode : cmodes,
      comparator_polarity : cpols, latching_comparator : latches,
      comparator_queue : queues ]

\* The state as __init__ is entered.
InitWith(arguments, surroundings) ==
    /\ args \in arguments
    /\ env \in surroundings
    /\ init_pc = "check_bus"
    /\ init_error = "none"
    /\ probe_dev = 0
    /\ detected = FALSE
    /\ self = NoFields
    /\ config_registers = NoRegisters
    /\ data = << >>
    /\ smp = NoSampler
    /\ call = [ t \in Threads |-> NoCall ]
    /\ consumer = [ c \in Consumers |-> "idle" ]
    /\ pushed = 0
    /\ popped = FALSE
    /\ delivered = << >>

\* ------------------------------------------------------------- __init__

\* __init__ ends with an exception: sys.exit(1) or an error.
InitFails(error) ==
    /\ init_pc' = "failed"
    /\ init_error' = error

\* Lines 111-119.  The message names I2CBus, which the module does not
\* define, so the f-string raises NameError before sys.exit(1) is reached.
InitCheckBus ==
    /\ init_pc = "check_bus"
    /\ IF args.bus_is_int
         THEN init_pc' = "check_pga" /\ UNCHANGED init_error
         ELSE InitFails("NameError")
    /\ UNCHANGED << args, env, probe_dev, detected, self, config_registers,
                    data, smp, call, consumer, pushed, popped, delivered >>

\* Lines 121-129.
InitCheckPga ==
    /\ init_pc = "check_pga"
    /\ IF args.pga_is_PGA
         THEN init_pc' = "check_address" /\ UNCHANGED init_error
         ELSE InitFails("SystemExit")
    /\ UNCHANGED << args, env, probe_dev, detected, self, config_registers,
                    data, smp, call, consumer, pushed, popped, delivered >>

\* Lines 131-139.
InitCheckAddress ==
    /\ init_pc = "check_address"
    /\ IF args.address_is_I2CAddress
         THEN init_pc' = "open_bus" /\ UNCHANGED init_error
         ELSE InitFails("SystemExit")
    /\ UNCHANGED << args, env, probe_dev, detected, self, config_registers,
                    data, smp, call, consumer, pushed, popped, delivered >>

\* Line 141: smbus.SMBus(bus) opens the bus or raises.
InitOpenBus ==
    /\ init_pc = "open_bus"
    /\ \E opened \in BOOLEAN :
         IF opened
           THEN init_pc' = "assign" /\ UNCHANGED init_error
           ELSE InitFails("OSError")
    /\ UNCHANGED << args, env, probe_dev, detected, self, config_registers,
                    data, smp, call, consumer, pushed, popped, delivered >>

\* Lines 142-151: the fields, each optional setting through its .value, and
\* the empty queue.  sampling is stored as given.
InitAssign ==
    /\ init_pc = "assign"
    /\ IF args.options_are_enums
         THEN /\ self' = [ f \in DOMAIN NoFields |-> args[f] ]
              /\ init_pc' = "probe"
              /\ UNCHANGED init_error
         ELSE /\ InitFails("AttributeError")
              /\ UNCHANGED self
    /\ data' = << >>
    /\ UNCHANGED << args, env, probe_dev, detected, config_registers,
                    smp, call, consumer, pushed, popped, delivered >>

\* is_detected, one iteration: read_byte(device) answers or raises; the loop
\* returns True when the device that answered is self.address.
InitProbe ==
    /\ init_pc = "probe"
    /\ probe_dev < ProbeRange
    /\ \E answered \in BOOLEAN :
         IF answered /\ probe_dev = self.address
           THEN /\ detected' = TRUE
                /\ init_pc' = "config"
                /\ UNCHANGED probe_dev
           ELSE /\ probe_dev' = probe_dev + 1
                /\ UNCHANGED << detected, init_pc >>
    /\ UNCHANGED << args, env, init_error, self, config_registers, data,
                    smp, call, consumer, pushed, popped, delivered >>

\* A faulty variant of InitNotDetected: the missing device does not end __init__.
InitNotDetected_NoExit ==
    /\ init_pc = "probe"
    /\ probe_dev = ProbeRange
    /\ init_pc' = "config"
    /\ UNCHANGED << args, env, init_error, probe_dev, detected, self,
                    config_registers, data, smp, call, consumer, pushed,
                    popped, delivered >>

\* is_detected returns False, lines 153-160.  The message reads bus.value of
\* an int, so it raises AttributeError before sys.exit(1) is reached.
InitNotDetected ==
    /\ init_pc = "probe"
    /\ probe_dev = ProbeRange
    /\ InitFails("AttributeError")
    /\ UNCHANGED << args, env, probe_dev, detected, self, config_registers,
                    data, smp, call, consumer, pushed, popped, delivered >>

\* Line 162.
InitConfig ==
    /\ init_pc = "config"
    /\ config_registers' = get_config_registers(self)
    /\ init_pc' = "run"
    /\ UNCHANGED << args, env, init_error, probe_dev, detected, self, data,
                    smp, call, consumer, pushed, popped, delivered >>

\* Line 169 and _run: the sampler thread starts, and __init__ returns.
InitRun ==
    /\ init_pc = "run"
    /\ smp' = [ smp EXCEPT !.pc = "full" ]
    /\ init_pc' = "done"
    /\ UNCHANGED << args, env, init_error, probe_dev, detected, self,
                    config_registers, data, call, consumer, pushed, popped, delivered >>

Construct ==
    \/ InitCheckBus
    \/ InitCheckPga
    \/ InitCheckAddress
    \/ InitOpenBus
    \/ InitAssign
    \/ InitProbe
    \/ InitNotDetected
    \/ InitConfig
    \/ InitRun

\* -------------------------------------------------- _read_analog_input

\* The byte pairs the device's conversion register may hold, by the name the
\* surroundings give the set: one positive code; the four codes at the ends
\* of the two signs; every pair of bytes.
Codes(name) ==
    CASE name = "one" -> { << 127, 255 >> }
      [] name = "ends" -> { << 0, 0 >>, << 127, 255 >>, << 128, 0 >>, << 255, 255 >> }
      [] name = "all" -> Byte \X Byte

\* What a call did on the bus and when it slept, in order.
WriteOp(word, ok) ==
    [ op |-> "write", addr |-> self.address, reg |-> CONFIG, val |-> word,
      ok |-> ok ]

ReadOp(bytes, ok) ==
    [ op |-> "read", addr |-> self.address, reg |-> CONVERSION, val |-> bytes,
      ok |-> ok ]

SleepOp(ms) ==
    [ op |-> "sleep", addr |-> -1, reg |-> -1, val |-> << ms >>, ok |-> TRUE ]

\* read_input_<key>() up to the first bus operation: lines 245-267 pass
\* self.config_registers[key]; lines 221-223 set total and enter the loop.
\* With an empty range the call is at line 243 at once: total / 0 raises
\* ZeroDivisionError, and a negative count returns 0 / sampling.
Begin(key) ==
    LET c == [ NoCall EXCEPT !.key = key,
                             !.config_register = config_registers[key] ]
    IN  IF self.sampling >= 1
          THEN [ c EXCEPT !.step = "write", !.i = 1 ]
          ELSE IF self.sampling = 0
                 THEN [ c EXCEPT !.step = "raised",
                                 !.error = "ZeroDivisionError" ]
                 ELSE [ c EXCEPT !.step = "returned",
                                 !.result = << 0, self.sampling >> ]

\* A faulty variant of BusWrite: every call writes the configuration word of
\* the first channel.
BusWrite_FirstChannelWord(t) ==
    /\ call[t].step = "write"
    /\ \E ok \in BOOLEAN :
         call' = [ call EXCEPT ![t] =
                     IF ok
                       THEN [ @ EXCEPT
                                !.step = "sleep1",
                                !.ops = Append(@, WriteOp(config_registers[ChannelKeys[1]], TRUE)) ]
                       ELSE [ @ EXCEPT
                                !.step = "raised",
                                !.error = "OSError",
                                !.ops = Append(@, WriteOp(config_registers[ChannelKeys[1]], FALSE)) ] ]
    /\ UNCHANGED << args, env, init_pc, init_error, probe_dev, detected,
                    self, config_registers, data, smp, consumer, pushed,
                    popped, delivered >>

\* Lines 224-226: write_i2c_block_data, which writes or raises.
BusWrite(t) ==
    /\ call[t].step = "write"
    /\ \E ok \in BOOLEAN :
         call' = [ call EXCEPT ![t] =
                     IF ok
                       THEN [ @ EXCEPT
                                !.step = "sleep1",
                                !.ops = Append(@, WriteOp(call[t].config_register, TRUE)) ]
                       ELSE [ @ EXCEPT
                                !.step = "raised",
                                !.error = "OSError",
                                !.ops = Append(@, WriteOp(call[t].config_register, FALSE)) ] ]
    /\ UNCHANGED << args, env, init_pc, init_error, probe_dev, detected,
                    self, config_registers, data, smp, consumer, pushed,
                    popped, delivered >>

\* Line 228.
Sleep1(t) ==
    /\ call[t].step = "sleep1"
    /\ call' = [ call EXCEPT ![t] =
                   [ @ EXCEPT !.step = "read",
                              !.ops = Append(@, SleepOp(dead_time)) ] ]
    /\ UNCHANGED << args, env, init_pc, init_error, probe_dev, detected,
                    self, config_registers, data, smp, consumer, pushed,
                    popped, delivered >>

\* A faulty variant of BusRead: a read that raises is tried again.
BusRead_Retries(t) ==
    /\ call[t].step = "read"
    /\ \/ \E bytes \in Codes(env.codes) :
            call' = [ call EXCEPT ![t] =
                        [ @ EXCEPT !.step = "sleep2",
                                   !.data = bytes,
                                   !.ops = Append(@, ReadOp(bytes, TRUE)) ] ]
       \/ /\ Len(call[t].ops) < 3 * MaxSampling
          /\ call' = [ call EXCEPT ![t] =
                         [ @ EXCEPT !.ops = Append(@, ReadOp(<< >>, FALSE)) ] ]
    /\ UNCHANGED << args, env, init_pc, init_error, probe_dev, detected,
                    self, config_registers, data, smp, consumer, pushed,
                    popped, delivered >>

\* Lines 230-231: read_i2c_block_data, which returns the two bytes of the
\* device's conversion register or raises.
BusRead(t) ==
    /\ call[t].step = "read"
    /\ \/ \E bytes \in Codes(env.codes) :
            call' = [ call EXCEPT ![t] =
                        [ @ EXCEPT !.step = "sleep2",
                                   !.data = bytes,
                                   !.ops = Append(@, ReadOp(bytes, TRUE)) ] ]
       \/ call' = [ call EXCEPT ![t] =
                      [ @ EXCEPT !.step = "raised",
                                 !.error = "OSError",
                                 !.ops = Append(@, ReadOp(<< >>, FALSE)) ] ]
    /\ UNCHANGED << args, env, init_pc, init_error, probe_dev, detected,
                    self, config_registers, data, smp, consumer, pushed,
                    popped, delivered >>

\* A faulty variant of Sleep2: in continuous mode the next iteration does not write
\* the configuration again.
Sleep2_ContinuousSkipsWrite(t) ==
    /\ call[t].step = "sleep2"
    /\ LET raw == raw_adc(call[t].data)
           total == call[t].total + sample_voltage(raw, self.pga)
       IN  call' = [ call EXCEPT ![t] =
                       IF call[t].i < self.sampling
                         THEN [ @ EXCEPT
                                  !.step = IF self.operating_mode = 0
                                             THEN "sleep1" ELSE "write",
                                  !.i = @ + 1,
                                  !.raw_adc = raw,
                                  !.total = total,
                                  !.ops = Append(@, SleepOp(dead_time)) ]
                         ELSE [ @ EXCEPT
                                  !.step = "returned",
                                  !.raw_adc = raw,
                                  !.total = total,
                                  !.result = << total, self.sampling >>,
                                  !.ops = Append(@, SleepOp(dead_time)) ] ]
    /\ UNCHANGED << args, env, init_pc, init_error, probe_dev, detected,
                    self, config_registers, data, smp, consumer, pushed,
                    popped, delivered >>

\* Lines 233-243: the second sleep, the decoding of the two bytes, the sum,
\* and either the next iteration or the return of total / self.sampling.
Sleep2(t) ==
    /\ call[t].step = "sleep2"
    /\ LET raw == raw_adc(call[t].data)
           total == call[t].total + sample_voltage(raw, self.pga)
       IN  call' = [ call EXCEPT ![t] =
                       IF call[t].i < self.sampling
                         THEN [ @ EXCEPT
                                  !.step = "write",
                                  !.i = @ + 1,
                                  !.raw_adc = raw,
                                  !.total = total,
                                  !.ops = Append(@, SleepOp(dead_time)) ]
                         ELSE [ @ EXCEPT
                                  !.step = "returned",
                                  !.raw_adc = raw,
                                  !.total = total,
                                  !.result = << total, self.sampling >>,
                                  !.ops = Append(@, SleepOp(dead_time)) ] ]
    /\ UNCHANGED << args, env, init_pc, init_error, probe_dev, detected,
                    self, config_registers, data, smp, consumer, pushed,
                    popped, delivered >>

Measure(t) ==
    \/ BusWrite(t)
    \/ Sleep1(t)
    \/ BusRead(t)
    \/ Sleep2(t)

\* The application calls one of read_input_in0_in1 .. read_input_in3_gnd on
\* the constructed object; its previous call has returned or raised.
ReadInput ==
    /\ init_pc = "done"
    /\ call["caller"].step \in { "idle", "returned", "raised" }
    /\ \E key \in env.keys :
         call' = [ call EXCEPT !["caller"] = Begin(key) ]
    /\ UNCHANGED << args, env, init_pc, init_error, probe_dev, detected,
                    self, config_registers, data, smp, consumer, pushed,
                    popped, delivered >>

\* ---------------------------------------------- _read_all_analog_inputs

\* datetime.now() of line 286.  Time is counted in snapshots: the clock
\* shows the ordinal of the next put.
now == pushed + 1

\* How many configuration writes a call has put on the bus.
ConfigWrites(ops) ==
    Cardinality({ n \in 1..Len(ops) : ops[n].op = "write" })

\* The dict of lines 275-287 made of the readings of the calls that returned
\* and of the time read; seq, the ordinal of the put, tells the snapshots
\* apart.
Snapshot(keys, readings, timestamp, seq) ==
    [ seq |-> seq,
      timestamp |-> timestamp,
      input_voltage |-> [ k \in { keys[n] : n \in 1..Len(keys) } |->
                            readings[CHOOSE n \in 1..Len(keys) :
                                       keys[n] = k] ] ]

\* The sampler as it enters the dict of line 275: the first read_input call.
StartMeasuring(evicted) ==
    /\ smp' = [ smp EXCEPT !.pc = "measure", !.chan = 1,
                           !.readings = << >>, !.keys = << >>,
                           !.evicted = evicted ]
    /\ call' = [ call EXCEPT !["sampler"] = Begin(ChannelKeys[1]) ]

\* Line 272: self.__data.full().
SamplerFull ==
    /\ smp.pc = "full"
    /\ pushed < MaxPushes
    /\ IF Len(data) >= maxsize
         THEN smp' = [ smp EXCEPT !.pc = "get" ] /\ UNCHANGED call
         ELSE StartMeasuring(FALSE)
    /\ UNCHANGED << args, env, init_pc, init_error, probe_dev, detected,
                    self, config_registers, data, consumer, pushed, popped, delivered >>

\* Line 273: self.__data.get(), which waits while the queue is empty.
SamplerGet ==
    /\ smp.pc = "get"
    /\ Len(data) > 0
    /\ data' = Tail(data)
    /\ StartMeasuring(TRUE)
    /\ UNCHANGED << args, env, init_pc, init_error, probe_dev, detected,
                    self, config_registers, consumer, pushed, popped, delivered >>

\* Lines 277-286: round(read_input_<key>(), 5) of a call that returned, then
\* the next call, or after the eighth the timestamp of line 286.
SamplerCollect ==
    /\ smp.pc = "measure"
    /\ call["sampler"].step = "returned"
    /\ LET readings == Append(smp.readings, round5(call["sampler"].result))
           keys == Append(smp.keys, call["sampler"].key)
           writes == smp.writes + ConfigWrites(call["sampler"].ops)
       IN  IF smp.chan < Len(ChannelKeys)
             THEN /\ smp' = [ smp EXCEPT !.chan = @ + 1,
                                         !.readings = readings,
                                         !.keys = keys,
                                         !.writes = writes ]
                  /\ call' = [ call EXCEPT !["sampler"] =
                                 Begin(ChannelKeys[smp.chan + 1]) ]
             ELSE /\ smp' = [ smp EXCEPT !.pc = "put",
                                         !.readings = readings,
                                         !.keys = keys,
                                         !.writes = writes,
                                         !.stamp = now ]
                  /\ call' = [ call EXCEPT !["sampler"] = NoCall ]
    /\ UNCHANGED << args, env, init_pc, init_error, probe_dev, detected,
                    self, config_registers, data, consumer, pushed, popped, delivered >>

\* Line 275: self.__data.put(...), which waits while the queue is full.
SamplerPut ==
    /\ smp.pc = "put"
    /\ Len(data) < maxsize
    /\ data' = Append(data, Snapshot(smp.keys, smp.readings, smp.stamp,
                                     pushed + 1))
    /\ pushed' = pushed + 1
    /\ smp' = [ smp EXCEPT !.pc = "sleep", !.put = TRUE, !.readings = << >>,
                           !.keys = << >> ]
    /\ UNCHANGED << args, env, init_pc, init_error, probe_dev, detected,
                    self, config_registers, call, consumer, popped, delivered >>

\* A faulty variant of SamplerExcept: the exception is not caught and ends the thread.
SamplerExcept_Escapes ==
    /\ smp.pc = "measure"
    /\ call["sampler"].step = "raised"
    /\ smp' = [ smp EXCEPT !.pc = "dead", !.failed = TRUE ]
    /\ call' = [ call EXCEPT !["sampler"] = NoCall ]
    /\ UNCHANGED << args, env, init_pc, init_error, probe_dev, detected,
                    self, config_registers, data, consumer, pushed, popped, delivered >>

\* A faulty variant of SamplerExcept: the sleep is the last statement of the
\* try block, so a failed cycle is followed by the next one at once.
SamplerExcept_NoSleep ==
    /\ smp.pc = "measure"
    /\ call["sampler"].step = "raised"
    /\ smp' = [ NoSampler EXCEPT !.pc = "full", !.prev_failed = TRUE,
                                 !.start = pushed ]
    /\ call' = [ call EXCEPT !["sampler"] = NoCall ]
    /\ UNCHANGED << args, env, init_pc, init_error, probe_dev, detected,
                    self, config_registers, data, consumer, pushed, popped,
                    delivered >>

\* A faulty variant of SamplerExcept: the readings made before the exception
\* are put into the buffer.
SamplerExcept_PutsPartial ==
    /\ smp.pc = "measure"
    /\ call["sampler"].step = "raised"
    /\ smp' = [ smp EXCEPT !.pc = "put", !.failed = TRUE ]
    /\ call' = [ call EXCEPT !["sampler"] = NoCall ]
    /\ UNCHANGED << args, env, init_pc, init_error, probe_dev, detected,
                    self, config_registers, data, consumer, pushed, popped,
                    delivered >>

\* Lines 289-293: an exception of a read_input call is caught and reported.
SamplerExcept ==
    /\ smp.pc = "measure"
    /\ call["sampler"].step = "raised"
    /\ smp' = [ smp EXCEPT !.pc = "sleep", !.failed = TRUE,
                           !.readings = << >>, !.keys = << >>,
                           !.writes = @ + ConfigWrites(call["sampler"].ops) ]
    /\ call' = [ call EXCEPT !["sampler"] = NoCall ]
    /\ UNCHANGED << args, env, init_pc, init_error, probe_dev, detected,
                    self, config_registers, data, consumer, pushed, popped, delivered >>

\* Lines 295-296 and 270: sleep(self.sampling_period), then the next cycle.
SamplerSleep ==
    /\ smp.pc = "sleep"
    /\ smp' = [ NoSampler EXCEPT !.pc = "full", !.prev_failed = smp.failed,
                                 !.start = pushed,
                                 !.slept = sampling_period ]
    /\ UNCHANGED << args, env, init_pc, init_error, probe_dev, detected,
                    self, config_registers, data, call, consumer, pushed,
                    popped, delivered >>

Sampler ==
    \/ SamplerFull
    \/ SamplerGet
    \/ Measure("sampler")
    \/ SamplerCollect
    \/ SamplerPut
    \/ SamplerExcept
    \/ SamplerSleep

\* ------------------------------------------------------- get_measurement

\* Lines 299-300: self.__data.empty(); an empty queue returns {}.
GetMeasurementEmpty(c) ==
    /\ init_pc = "done"
    /\ consumer[c] = "idle"
    /\ IF Len(data) = 0
         THEN UNCHANGED consumer
         ELSE consumer' = [ consumer EXCEPT ![c] = "get" ]
    /\ UNCHANGED << args, env, init_pc, init_error, probe_dev, detected,
                    self, config_registers, data, smp, call, pushed, popped, delivered >>

\* A faulty variant of GetMeasurementGet: the queue hands out its newest
\* entry, as a LifoQueue does.
GetMeasurementGet_Lifo(c) ==
    /\ consumer[c] = "get"
    /\ Len(data) > 0
    /\ data' = SubSeq(data, 1, Len(data) - 1)
    /\ delivered' = << data[Len(data)] >>
    /\ popped' = TRUE
    /\ consumer' = [ consumer EXCEPT ![c] = "idle" ]
    /\ UNCHANGED << args, env, init_pc, init_error, probe_dev, detected,
                    self, config_registers, smp, call, pushed >>

\* Lines 302 and 151: self.__data.get(), which waits while the queue is
\* empty and then removes and returns the entry a Queue has held longest.
GetMeasurementGet(c) ==
    /\ consumer[c] = "get"
    /\ Len(data) > 0
    /\ data' = Tail(data)
    /\ delivered' = << Head(data) >>
    /\ popped' = TRUE
    /\ consumer' = [ consumer EXCEPT ![c] = "idle" ]
    /\ UNCHANGED << args, env, init_pc, init_error, probe_dev, detected,
                    self, config_registers, smp, call, pushed >>

GetMeasurement ==
    \/ \E c \in env.consumers : GetMeasurementEmpty(c)
    \/ \E c \in env.consumers : GetMeasurementGet(c)

\* ------------------------------------------------------- specifications

\* The arguments of the example (pga FSR_6_144, address X48 and the defaults
\* of the optional settings) with each type check passing or failing, and
\* a sample count of 0 or 1.
MainArguments ==
    Arguments(BOOLEAN, {0}, {72}, 0..1, {1}, {6}, {0}, {0}, {0}, {3})

\* The device converts to one code.  The application reads two channels
\* directly, or polls get_measurement from two threads, or does both, each
\* from one thread.
MainSurroundings ==
    [ codes : { "one" },
      keys : { { "in0_in1", "in3_gnd" } },
      consumers : { { } } ]
    \cup
    [ codes : { "one" },
      keys : { { } },
      consumers : { { "c1", "c2" } } ]
    \cup
    [ codes : { "one" },
      keys : { { "in3_gnd" } },
      consumers : { { "c1" } } ]

Init == InitWith(MainArguments, MainSurroundings)

Next ==
    \/ Construct
    \/ Sampler
    \/ Measure("caller")
    \/ ReadInput
    \/ GetMeasurement

Spec == Init /\ [][Next]_vars

\* Every combination of the settings the configuration word is made of, with
\* the default sample count; the application calls nothing.
CodecArguments ==
    Arguments({TRUE}, PGA, {72}, {5}, OperatingMode, DataRate, ComparatorMode, ComparatorPolarity, LatchingComparator, ComparatorQueue)

CodecSurroundings ==
    [ codes : { "one" }, keys : { { } }, consumers : { { } } ]

InitCodec == InitWith(CodecArguments, CodecSurroundings)

SpecCodec == InitCodec /\ [][Construct]_vars

\* One thread of the application reads channels directly and the sampler is
\* not scheduled: sample counts 0 .. MaxSampling in both operating modes and
\* four gains with the codes at the ends of the two signs on every channel,
\* and a single sample of every pair of bytes on one channel.
MeasureArguments ==
    Arguments({TRUE}, {0, 5, 6, 7}, {72}, 0..MaxSampling, OperatingMode, {6}, {0}, {0}, {0}, {3})

MeasureSurroundings ==
    [ codes : { "ends" }, keys : { KeySet }, consumers : { { } } ]

DecodeArguments ==
    Arguments({TRUE}, {0}, {72}, {1}, {1}, {6}, {0}, {0}, {0}, {3})

DecodeSurroundings ==
    [ codes : { "all" }, keys : { { "in0_in1" } }, consumers : { { } } ]

InitMeasure ==
    \/ InitWith(MeasureArguments, MeasureSurroundings)
    \/ InitWith(DecodeArguments, DecodeSurroundings)

NextMeasure ==
    \/ Construct
    \/ Measure("caller")
    \/ ReadInput

SpecMeasure == InitMeasure /\ [][NextMeasure]_vars

\* The sampler alone, the application calling nothing after the constructor:
\* sample counts 1 .. MaxSampling in both operating modes.
SamplerArguments ==
    Arguments({TRUE}, {0}, {72}, 1..MaxSampling, OperatingMode, {6}, {0}, {0}, {0}, {3})

SamplerSurroundings ==
    [ codes : { "one" }, keys : { { } }, consumers : { { } } ]

InitSampler == InitWith(SamplerArguments, SamplerSurroundings)

NextSampler ==
    \/ Construct
    \/ Sampler

SpecSampler == InitSampler /\ [][NextSampler]_vars

\* ----------------------------------------------------------------- claims

\* The call of thread t is between its first configuration write and the end
\* of its last wait.
InFlight(t) ==
    \/ call[t].step \in { "sleep1", "read", "sleep2" }
    \/ call[t].step = "write" /\ call[t].i > 1

\* C1: bus exclusivity.  At most one conversion sequence is in flight at a
\* time: the sampler and a caller-invoked read_input are never both between
\* the first configuration write and the last wait of their measurement.
C1_BusExclusive ==
    ~ (InFlight("sampler") /\ InFlight("caller"))

\* C2: get_measurement never blocks.  No call is ever inside Queue.get() of
\* line 302 with the queue empty, where it waits for the sampler's next put.
C2_GetMeasurementNeverBlocks ==
    \A c \in Consumers : ~ (consumer[c] = "get" /\ Len(data) = 0)

\* The oldest snapshot of a full queue was discarded in this cycle and the
\* snapshot that replaces it is not inserted.
HalfEvicted == smp.evicted /\ ~ smp.put

\* C3: push is atomic with respect to pop.  No step of a get_measurement call
\* is taken in a state in which the sampler has discarded the oldest snapshot
\* of a full queue and has not yet inserted the new one.
C3_PushAtomic ==
    [][ (\E c \in Consumers : GetMeasurementEmpty(c) \/ GetMeasurementGet(c))
          => ~ HalfEvicted ]_vars

\* C4: buffer eviction.  With no consumer pops, once more than 20 snapshots
\* were pushed the queue holds exactly 20 entries, the 20 pushed last, in
\* the order they were pushed.
C4_HoldsLatestTwenty ==
    (~ popped /\ pushed > maxsize)
      => /\ Len(data) = maxsize
         /\ \A n \in 1..maxsize : data[n].seq = pushed - maxsize + n

\* C5: resilience.  Once started the sampler is always at a position of its
\* loop (no exception of the measurement phase ends it), and at the end of a
\* cycle a snapshot was pushed exactly if no read_input call raised: a cycle
\* with a failed bus operation pushes nothing, and the cycle after it, with
\* every bus operation succeeding, pushes its snapshot of eight readings.
C5_Resilience ==
    /\ init_pc = "done"
         => smp.pc \in { "full", "get", "measure", "put", "sleep" }
    /\ smp.pc = "put" => Len(smp.readings) = Len(ChannelKeys)
    /\ smp.pc = "sleep"
         => /\ smp.failed => ~ smp.put /\ pushed = smp.start
            /\ ~ smp.failed
                 => /\ smp.put
                    /\ pushed = smp.start + 1
    /\ \A n \in 1..Len(data) : DOMAIN data[n].input_voltage = KeySet

\* A cycle that pushed its snapshot right after a cycle that failed.
C5_Witness ==
    smp.pc = "sleep" /\ smp.prev_failed /\ smp.put /\ ~ smp.failed

\* C6: construction ordering.  The sampler runs only after is_detected found
\* the configured address and the eight configuration words were computed,
\* and after a failed construction it never runs and the queue stays empty.
C6_ConstructionOrder ==
    /\ smp.pc # "off"
         => /\ detected
            /\ args.bus_is_int /\ args.pga_is_PGA /\ args.address_is_I2CAddress
            /\ \A k \in KeySet : Len(config_registers[k]) = 2
    /\ init_pc = "failed"
         => smp.pc = "off" /\ data = << >> /\ pushed = 0

\* The configured address answered no probe and the construction has failed.
C6_Witness ==
    init_pc = "failed" /\ probe_dev = ProbeRange /\ ~ detected

\* C7: settings are validated at construction.  A constructed driver has a
\* positive sample count, and no measurement fails because of the settings
\* (here: the division by a sample count of zero).
C7_SettingsValidated ==
    /\ init_pc = "done" => self.sampling >= 1
    /\ \A t \in Threads : call[t].error # "ZeroDivisionError"

\* C8: configuration word encoding.  For every combination of the settings
\* and every multiplexer code, byte 0 is 128 + 16 mux + 2 gain + mode and
\* byte 1 is 32 rate + 16 comp_mode + 8 comp_polarity + 4 latching +
\* comp_queue; both are bytes, the start bit is set, and every field is
\* read back from its bits of the word.
C8_ConfigWordEncoding ==
    init_pc \in { "run", "done" }
      => \A k \in KeySet :
           LET w == config_registers[k]
               mux == Multiplexer[k]
           IN  /\ Len(w) = 2
               /\ w[1] = 128 + 16 * mux + 2 * self.pga + self.operating_mode
               /\ w[2] = 32 * self.data_rate + 16 * self.comparator_mode
                           + 8 * self.comparator_polarity
                           + 4 * self.latching_comparator
                           + self.comparator_queue
               /\ w[1] \in Byte /\ w[2] \in Byte
               /\ w[1] \div 128 = 1
               /\ (w[1] \div 16) % 8 = mux
               /\ (w[1] \div 2) % 8 = self.pga
               /\ w[1] % 2 = self.operating_mode
               /\ w[2] \div 32 = self.data_rate
               /\ (w[2] \div 16) % 2 = self.comparator_mode
               /\ (w[2] \div 8) % 2 = self.comparator_polarity
               /\ (w[2] \div 4) % 2 = self.latching_comparator
               /\ w[2] % 4 = self.comparator_queue

\* Every field at its largest value: the word of in3_gnd is all ones.
C8_Witness ==
    /\ init_pc = "done"
    /\ self.pga = 7 /\ self.operating_mode = 1 /\ self.data_rate = 7
    /\ self.comparator_mode = 1 /\ self.comparator_polarity = 1
    /\ self.latching_comparator = 1 /\ self.comparator_queue = 3
    /\ config_registers["in3_gnd"] = << 255, 255 >>

\* The two bytes of the 16-bit two's-complement representation of c.
TwosComplement(c) ==
    LET u == (c + 65536) % 65536
    IN  << u \div 256, u % 256 >>

\* The call of thread t has decoded the bytes in call[t].data.
Decoded(t) ==
    /\ call[t].data # << >>
    /\ call[t].step # "sleep2"

\* C9: raw code decode.  The code decoded from the bytes (hi, lo) is
\* u = 256 hi + lo when u <= 32767 and u - 65536 otherwise; it lies in
\* -32768 .. 32767 and is the code whose two's-complement representation the
\* bytes are.
C9_RawCodeDecode ==
    \A t \in Threads :
      Decoded(t)
        => LET u == 256 * call[t].data[1] + call[t].data[2]
               c == call[t].raw_adc
           IN  /\ c = IF u <= 32767 THEN u ELSE u - 65536
               /\ c \in -32768..32767
               /\ TwosComplement(c) = call[t].data

\* The most negative code was read and decoded.
C9_Witness ==
    /\ call["caller"].step = "returned"
    /\ call["caller"].data = << 128, 0 >>
    /\ call["caller"].raw_adc = -32768

\* The n-th entry of the protocol of a call with the configuration word w:
\* write w to the configuration register, wait, read two bytes of the
\* conversion register, wait.
ProtocolEntry(o, n, w) ==
    CASE n % 4 = 1 -> /\ o.op = "write" /\ o.addr = self.address
                      /\ o.reg = CONFIG /\ o.val = w
      [] n % 4 = 2 -> o.op = "sleep" /\ o.val = << dead_time >>
      [] n % 4 = 3 -> /\ o.op = "read" /\ o.addr = self.address
                      /\ o.reg = CONVERSION
                      /\ (o.ok => Len(o.val) = ReadLength)
      [] OTHER -> o.op = "sleep" /\ o.val = << dead_time >>

\* C10: conversion protocol order.  What a call has done so far is a prefix
\* of sample-count iterations of (write of its channel's precomputed word,
\* wait, read, wait), so every read follows a write and a wait of the same
\* call, and a call that returned has done exactly sample-count iterations,
\* all of them successful, in either operating mode.
C10_ProtocolOrder ==
    \A t \in Threads :
      LET c == call[t]
      IN  c.step # "idle"
            => /\ c.config_register
                    = calculate_config_register(self, Multiplexer[c.key])
               /\ c.config_register = config_registers[c.key]
               /\ \A n \in 1..Len(c.ops) :
                    ProtocolEntry(c.ops[n], n, c.config_register)
               /\ Len(c.ops) <= 4 * self.sampling
               /\ (c.step = "returned" /\ self.sampling >= 1)
                    => /\ Len(c.ops) = 4 * self.sampling
                       /\ \A n \in 1..Len(c.ops) : c.ops[n].ok

\* A call in continuous mode returned after MaxSampling iterations.
C10_Witness ==
    /\ call["caller"].step = "returned"
    /\ self.operating_mode = 0
    /\ self.sampling = MaxSampling
    /\ Len(call["caller"].ops) = 4 * MaxSampling

\* C11: a bus operation that fails is the last operation of its call: the
\* call has raised the bus error, has produced no value, and has put nothing
\* on the bus after the failure, so no operation is repeated.
C11_NoInternalRetry ==
    \A t \in Threads :
        LET c == call[t]
        IN  /\ \A n \in 1..Len(c.ops) :
                 ~ c.ops[n].ok =>
                     /\ n = Len(c.ops)
                     /\ c.step = "raised"
                     /\ c.error = "OSError"
            /\ c.step = "raised" => c.result = << >>
            /\ (c.step = "raised" /\ c.error = "OSError") =>
                   /\ Len(c.ops) > 0
                   /\ ~ c.ops[Len(c.ops)].ok
                   /\ c.ops[Len(c.ops)].op \in { "write", "read" }

\* A direct read whose second sample's read failed after a first sample
\* went through, and one whose configuration write failed.
C11_Witness ==
    LET c == call["caller"]
    IN  /\ c.step = "raised"
        /\ c.error = "OSError"
        /\ Len(c.ops) = 7
        /\ c.ops[7].op = "read"
        /\ ~ c.ops[7].ok
        /\ c.ops[1].ok /\ c.ops[3].ok

\* C12: a get_measurement call that takes a snapshot removes and returns the
\* oldest snapshot of the buffer, and the snapshot it returns was produced
\* after the one returned before it: snapshots reach the consumers in the
\* order of their production and none reaches them twice.
C12_FifoDelivery ==
    [][ \A c \in Consumers :
          (consumer[c] = "get" /\ consumer'[c] = "idle") =>
              /\ Len(data) > 0
              /\ delivered' = << Head(data) >>
              /\ data' = Tail(data)
              /\ \A n \in 1..Len(data') : data'[n].seq > delivered'[1].seq
              /\ delivered # << >> => delivered'[1].seq > delivered[1].seq
      ]_vars

\* Two consumers have taken snapshots, the last one after the sampler threw
\* older ones away, and the buffer holds newer ones.
C12_Witness ==
    /\ delivered # << >>
    /\ delivered[1].seq = 3
    /\ pushed >= 22
    /\ Len(data) >= 2
    /\ data[1].seq = 4

\* A snapshot with a reading of each of the eight channels and the time read
\* in the cycle that put it.
Complete(s) ==
    /\ DOMAIN s.input_voltage = KeySet
    /\ s.timestamp = s.seq

\* C13: the sampler measures the eight channels in the fixed order, reads
\* the time in the same cycle, and every snapshot in the buffer or returned
\* to a consumer has all eight readings and that time: no partly assembled
\* snapshot is visible.
C13_SnapshotComplete ==
    /\ smp.pc = "measure" =>
          /\ smp.keys = SubSeq(ChannelKeys, 1, smp.chan - 1)
          /\ Len(smp.readings) = smp.chan - 1
          /\ call["sampler"].key = ChannelKeys[smp.chan]
    /\ smp.pc = "put" =>
          /\ smp.keys = ChannelKeys
          /\ Len(smp.readings) = Len(ChannelKeys)
          /\ smp.stamp = smp.start + 1
    /\ \A n \in 1..Len(data) : Complete(data[n])
    /\ \A n \in 1..Len(delivered) : Complete(delivered[n])

\* The sampler is halfway through a cycle that follows a failed one, while
\* the buffer holds snapshots and a consumer has been handed one.
C13_Witness ==
    /\ smp.pc = "measure"
    /\ smp.chan = 5
    /\ smp.prev_failed
    /\ Len(data) > 0
    /\ delivered # << >>

\* C14: the measurement phase of a cycle, whether it put a snapshot or
\* raised, is left only into the sleep of one sampling period; a cycle
\* other than the first begins only out of that sleep, and the first bus
\* operation of such a cycle comes after it.
C14_SleepAfterEveryCycle ==
    [][ /\ (smp.pc \in { "measure", "put" } /\ smp'.pc \notin { "measure", "put" })
              => smp'.pc = "sleep"
        /\ (smp.pc = "sleep" /\ smp'.pc # "sleep")
              => (smp'.pc = "full" /\ smp'.slept = sampling_period)
        /\ (smp'.pc = "full" /\ smp.pc # "full")
              => smp.pc \in { "off", "sleep" }
        /\ (smp.pc \in { "full", "get", "measure", "put" } /\ smp'.pc # "sleep")
              => smp'.slept = smp.slept
        /\ ( /\ Len(call["sampler"].ops) < Len(call'["sampler"].ops)
             /\ (smp.start > 0 \/ smp.prev_failed) )
              => smp.slept = sampling_period
      ]_vars

\* The sampler is on the bus in a cycle that follows a failed cycle, after
\* earlier cycles that put snapshots.
C14_Witness ==
    /\ smp.pc = "measure"
    /\ smp.prev_failed
    /\ smp.start > 1
    /\ smp.slept = sampling_period
    /\ Len(call["sampler"].ops) > 0

\* The step sizes the averaging is stated with, in units of 0.0000001 mV:
\* 0.1875, 0.125, 0.0625, 0.03125, 0.015625 and three times 0.0078125 mV.
StepSizeTable ==
    [ g \in 0..7 |-> CASE g = 0 -> 1875000
                        [] g = 1 -> 1250000
                        [] g = 2 -> 625000
                        [] g = 3 -> 312500
                        [] g = 4 -> 156250
                        [] g = 5 -> 78125
                        [] g = 6 -> 78125
                        [] g = 7 -> 78125 ]

\* The signed code two bytes of the conversion register stand for.
CodeOf(bytes) ==
    IF bytes[1] >= 128
      THEN 256 * bytes[1] + bytes[2] - 65536
      ELSE 256 * bytes[1] + bytes[2]

\* c * step_size(g) / 1000 - 0.02 V in units of 1/128000 V: 0.0078125 mV
\* is one unit and 0.02 V are 2560.
VoltageOfCode(c, g) == c * (StepSizeTable[g] \div StepSizeTable[7]) - 2560

\* The sum of the voltages of the codes a call has read.
RECURSIVE SumOfSamples(_, _)
SumOfSamples(ops, g) ==
    IF ops = << >>
      THEN 0
      ELSE (IF Head(ops).op = "read"
              THEN VoltageOfCode(CodeOf(Head(ops).val), g)
              ELSE 0)
           + SumOfSamples(Tail(ops), g)

\* C15: a call with a sample count N >= 1 that returned has read N codes and
\* its result, total / N, is the arithmetic mean of the voltages of those
\* codes by the table of step sizes, in which the gains 5, 6 and 7 share
\* one step size.
C15_Averaging ==
    /\ \A g \in 0..7 : StepSizeTable[g] % StepSizeTable[7] = 0
    /\ StepSizeTable[5] = StepSizeTable[6]
    /\ StepSizeTable[6] = StepSizeTable[7]
    /\ \A t \in Threads :
         (call[t].step = "returned" /\ self.sampling >= 1) =>
             LET ops == call[t].ops
                 N == Cardinality({ n \in 1..Len(ops) : ops[n].op = "read" })
             IN  /\ N = self.sampling
                 /\ call[t].result[2] = N
                 /\ call[t].result[1] = SumOfSamples(ops, self.pga)

\* A call with the largest sample count and the gain 7 has returned the mean
\* of codes of both signs.
C15_Witness ==
    LET c == call["caller"]
    IN  /\ c.step = "returned"
        /\ self.sampling = MaxSampling
        /\ self.pga = 7
        /\ c.ops[3].val = << 127, 255 >>
        /\ c.ops[7].val = << 128, 0 >>

\* C16: a cycle whose measurement phase raised leaves the buffer as it was
\* at the start of the cycle, apart from what consumers took: the sampler
\* has removed nothing from it, also when it was full.
C16_FailedCycleKeepsBuffer ==
    (smp.pc = "sleep" /\ smp.failed) => ~ smp.evicted

\* C17: the sampler never waits on the buffer: the get of line 273 finds an
\* entry to evict and the put of line 275 finds room, so that every cycle
\* the sampler begins comes to its end.
C17_SamplerNeverWaits ==
    /\ ~ (smp.pc = "get" /\ Len(data) = 0)
    /\ ~ (smp.pc = "put" /\ Len(data) >= maxsize)

\* C18: once __init__ has returned, no step of the sampler, of a direct read
\* or of get_measurement changes the eight configuration words or the
\* settings they were computed from, and every configuration write put on
\* the bus carries the word computed for the channel that is measured.
C18_ConfigWordsStable ==
    [][ /\ init_pc = "done" =>
              /\ config_registers' = config_registers
              /\ self' = self
        /\ \A t \in Threads :
              Len(call'[t].ops) > Len(call[t].ops) =>
                  LET o == call'[t].ops[Len(call'[t].ops)]
                  IN  o.op = "write" =>
                          /\ call'[t].key = call[t].key
                          /\ o.reg = CONFIG
                          /\ o.val = config_registers'[call[t].key]
      ]_vars

\* After snapshots were put and one was taken by a consumer, a direct read
\* has returned while the sampler is measuring another channel.
C18_Witness ==
    /\ popped
    /\ pushed >= 2
    /\ call["caller"].step = "returned"
    /\ call["caller"].key = "in3_gnd"
    /\ call["sampler"].key = "in1_gnd"
    /\ Len(call["sampler"].ops) > 0
    /\ call["sampler"].ops[1].val # call["caller"].ops[1].val

\* C19: in every reachable state the buffer holds at least 0 and at most 20
\* snapshots, whatever the consumers and the sampler do.
C19_BufferBound == Len(data) \in 0..20

\* The buffer is full again after consumers took snapshots and the sampler
\* put new ones.
C19_Witness ==
    /\ Len(data) = 20
    /\ popped
    /\ pushed >= 22
    /\ consumer["c2"] = "get"

\* C20 as claimed: a cycle of the sampler that measured all eight channels
\* has put exactly two configuration writes on the bus.
C20_TwoConfigWrites ==
    (smp.pc = "put" \/ smp.put) => smp.writes = 2

\* C20 as the code has it: a cycle of the sampler that measured all eight
\* channels has put one configuration write on the bus for each sample of
\* each channel, 8 times the sample count, in either operating mode.
C20_ConfigWritesPerCycle ==
    (smp.pc = "put" \/ smp.put) =>
        smp.writes = Len(ChannelKeys) * self.sampling

\* A cycle in continuous mode with the largest sample count has put its
\* snapshot, after an earlier cycle did.
C20_Witness ==
    /\ smp.put
    /\ pushed >= 2
    /\ self.sampling = MaxSampling
    /\ self.operating_mode = 0

====
